---- MODULE Spec2Model ----
(***************************************************************************)
(* A model of ivande_combiner.transformers: eight scikit-learn style       *)
(* transformers (fit / transform over a pandas DataFrame).                 *)
(*                                                                         *)
(* One transformer instance is alive at a time.  The state is the          *)
(* instance (`self`), the last call made on it (`op`), the argument of     *)
(* that call as it was passed (`arg`) and as the call left it (`X`), what  *)
(* the call returned (`out`) and                                           *)
(* the exception it raised (`raised`); `fit_called` records whether fit    *)
(* has been called on the instance and `constructed` keeps the instance as *)
(* its constructor left it.                                                *)
(*                                                                         *)
(* Python values:                                                          *)
(*   None / NaN      the empty tuple <<>>; a present value v is <<v>>      *)
(*   list            a sequence                                            *)
(*   dict            a sequence of <<key, value>> pairs with distinct      *)
(*                   keys, in insertion order (Python dicts iterate in     *)
(*                   insertion order)                                      *)
(*   DataFrame       [isDataFrame, columns, nrows, data, dtype]; column    *)
(*                   labels are distinct                                   *)
(***************************************************************************)
EXTENDS Integers, Sequences, FiniteSets, TLC

VARIABLES self, op, arg, X, out, raised, fit_called, constructed

vars == <<self, op, arg, X, out, raised, fit_called, constructed>>

\* ---------------------------------------------------------------- bounds

\* A table has 0..MaxRows rows.
MaxRows == 3

\* Numeric cells are NaN or 0..MaxVal.
MaxVal == 1

\* ------------------------------------------------------- Python values

None == <<>>

Some(v) == <<v>>

IsNone(o) == o = <<>>

Get(o) == o[1]

Range(s) == {s[i] : i \in DOMAIN s}

\* [x for x in s if x in keep]
FilterIn(s, keep) == SelectSeq(s, LAMBDA x : x \in keep)

\* [x for x in s if x not in drop]
FilterOut(s, drop) == SelectSeq(s, LAMBDA x : x \notin drop)

NoDup(s) == \A i, j \in DOMAIN s : s[i] = s[j] => i = j

\* All sequences over S of length 0..n, and those without repetition.
SeqsUpTo(S, n) == UNION {[1..k -> S] : k \in 0..n}

Orders(S, n) == {s \in SeqsUpTo(S, n) : NoDup(s)}

\* dict helpers: keys in insertion order, lookup, d[k] = v.
DictKeys(d) == [i \in DOMAIN d |-> d[i][1]]

DictHas(d, k) == \E i \in DOMAIN d : d[i][1] = k

DictGet(d, k) == d[CHOOSE i \in DOMAIN d : d[i][1] = k][2]

DictSet(d, k, v) ==
    IF DictHas(d, k)
    THEN [i \in DOMAIN d |-> IF d[i][1] = k THEN <<k, v>> ELSE d[i]]
    ELSE Append(d, <<k, v>>)

\* ----------------------------------------------------------- DataFrame

\* Something that is not a DataFrame (the tests pass a string).
NotADataFrame ==
    [isDataFrame |-> FALSE, columns |-> <<>>, nrows |-> 0, data |-> <<>>, dtype |-> <<>>]

\* A frame with the given column labels, row count, cells and dtypes.
Frame(cols, n, data, dtype) ==
    [isDataFrame |-> TRUE, columns |-> cols, nrows |-> n, data |-> data, dtype |-> dtype]

\* X.columns as a set (the `col in X.columns` test).
Columns(df) == Range(df.columns)

\* X_[col] = values (an existing column keeps its place, a new one is appended).
SetColumn(df, col, values, dt) ==
    [df EXCEPT !.columns = IF col \in Columns(df) THEN @ ELSE Append(@, col),
               !.data = [c \in Columns(df) \cup {col} |-> IF c = col THEN values ELSE df.data[c]],
               !.dtype = [c \in Columns(df) \cup {col} |-> IF c = col THEN dt ELSE df.dtype[c]]]

\* X[cols] / X.drop(cols): the frame restricted to the labels of `cols`, in that order.
SelectColumns(df, cols) ==
    [df EXCEPT !.columns = cols,
               !.data = [c \in Range(cols) |-> df.data[c]],
               !.dtype = [c \in Range(cols) |-> df.dtype[c]]]

\* Numeric cells.
Cells == {None} \cup {Some(v) : v \in 0..MaxVal}

\* NaN first, then the numbers in order.
CellRank(cell) == IF IsNone(cell) THEN -1 ELSE Get(cell)

Ascending(cells) == \A i \in 1..(Len(cells) - 1) : CellRank(cells[i]) <= CellRank(cells[i + 1])

\* All numeric frames over the given column orders with 0..n rows.  Every
\* operation modelled here commutes with a permutation of the rows, so one row
\* order stands for all: the rows are taken with the first column ascending.
NumFrames(colSeqs, n) ==
    UNION {UNION {{Frame(cols, k, d, [c \in Range(cols) |-> "float64"]) :
                     d \in {e \in [Range(cols) -> [1..k -> Cells]] :
                              cols # <<>> => Ascending(e[cols[1]])}} :
                  k \in 0..n} :
           cols \in colSeqs}

\* ---------------------------------------------------- what a call gives

\* A call's outcome: the instance and the argument as the call leaves them, the
\* returned frame (None when the call returns self or raises) and the exception.
Ret(s, x, o, e) == [self |-> s, X |-> x, out |-> o, raised |-> e]

NoError == "none"

\* ----------------------------------------------------------------- utils

\* check_fill: raises ValueError unless X is a DataFrame.
check_fill(x) == IF x.isDataFrame THEN NoError ELSE "ValueError"

\* check_transform: check_fill, then NotFittedError when the fitted item is falsy.
check_transform(x, fitted_item_falsy, is_check_fill) ==
    IF check_fill(x) # NoError THEN check_fill(x)
    ELSE IF is_check_fill /\ fitted_item_falsy THEN "NotFittedError"
    ELSE NoError

\* `not item` for an item that is None, a list or a dict.
Falsy(item) == IsNone(item) \/ Get(item) = <<>>

\* A call on the live instance with the argument a: the variables after it.
Call(name, a, r) ==
    /\ op' = name
    /\ arg' = a
    /\ fit_called' = CASE name = "init" -> FALSE
                        [] name \in {"fit", "fit_transform"} -> TRUE
                        [] OTHER -> fit_called
    /\ constructed' = IF name = "init" THEN r.self ELSE constructed
    /\ self' = r.self
    /\ X' = r.X
    /\ out' = r.out
    /\ raised' = r.raised

\* No instance (before construction, or after a constructor that raised).
NoInstance == [class |-> "none"]

\* ------------------------------------------------------ column statistics

\* The non-null numbers of a column, in row order (pandas skips NaN).
RECURSIVE Numbers(_)
Numbers(cells) ==
    IF cells = <<>> THEN <<>>
    ELSE IF IsNone(Head(cells)) THEN Numbers(Tail(cells))
    ELSE <<Get(Head(cells))>> \o Numbers(Tail(cells))

RECURSIVE Insert(_, _)
Insert(v, sorted) ==
    IF sorted = <<>> THEN <<v>>
    ELSE IF v <= Head(sorted) THEN <<v>> \o sorted
    ELSE <<Head(sorted)>> \o Insert(v, Tail(sorted))

RECURSIVE Sort(_)
Sort(xs) == IF xs = <<>> THEN <<>> ELSE Insert(Head(xs), Sort(Tail(xs)))

RECURSIVE Sum(_)
Sum(xs) == IF xs = <<>> THEN 0 ELSE Head(xs) + Sum(Tail(xs))

SumSq(xs) == Sum([i \in DOMAIN xs |-> xs[i] * xs[i]])

\* Series.min() / Series.max(): NaN for a series with no number.
SeriesMin(xs) == IF xs = <<>> THEN None ELSE Some(CHOOSE m \in Range(xs) : \A y \in Range(xs) : m <= y)

SeriesMax(xs) == IF xs = <<>> THEN None ELSE Some(CHOOSE m \in Range(xs) : \A y \in Range(xs) : m >= y)

\* Series.quantile(num/den) times den (pandas' linear interpolation between the
\* order statistics around position (n-1)*num/den); NaN for no number.
Quantile(xs, num, den) ==
    LET sorted == Sort(xs)
        h == (Len(xs) - 1) * num
        i == h \div den
        r == h % den
    IN  IF xs = <<>> THEN None
        ELSE Some(den * sorted[i + 1]
                  + (IF r = 0 THEN 0 ELSE r * (sorted[i + 2] - sorted[i + 1])))

\* --------------------------------------------------------- OutlierRemover

KnownMethods == {"iqr", "std", "quantile", "skip"}

\* The mask (X[col] >= left_bound) & (X[col] <= right_bound) at a number v of a
\* column whose numbers are xs.  A comparison with a NaN bound is False.  The
\* bounds are rationals (std: a square root); both sides are scaled to integers.
InBounds(method, xs, v) ==
    LET n == Len(xs)
    IN  CASE method = "iqr" ->
             \* 4*q1, 4*q3; left = q1 - 1.5*(q3-q1), right = q3 + 1.5*(q3-q1), times 8
             LET q1 == Quantile(xs, 1, 4)
                 q3 == Quantile(xs, 3, 4)
             IN  /\ n > 0
                 /\ 8 * v >= 2 * Get(q1) - 3 * (Get(q3) - Get(q1))
                 /\ 8 * v <= 2 * Get(q3) + 3 * (Get(q3) - Get(q1))
          [] method = "std" ->
             \* mean = S/n, std^2 = (n*SS - S^2) / (n*(n-1)) (ddof = 1: NaN for n < 2);
             \* |v - mean| <= 3*std, squared and times n^2*(n-1)
             LET S == Sum(xs)
                 SS == SumSq(xs)
             IN  /\ n > 1
                 /\ (n - 1) * (S - n * v) * (S - n * v) <= 9 * n * (n * SS - S * S)
          [] method = "quantile" ->
             \* 100*q01, 100*q99
             /\ n > 0
             /\ 100 * v >= Get(Quantile(xs, 1, 100))
             /\ 100 * v <= Get(Quantile(xs, 99, 100))
          [] method = "skip" ->
             /\ n > 0
             /\ v >= Get(SeriesMin(xs))
             /\ v <= Get(SeriesMax(xs))

\* A fit that forgets the mask: the extremes of the whole column.
ColumnThresholds_unmasked(method, cells) ==
    <<SeriesMin(Numbers(cells)), SeriesMax(Numbers(cells))>>

\* s = X[col][mask]; (s.min(), s.max())
ColumnThresholds(method, cells) ==
    LET xs == Numbers(cells)
        s == SelectSeq(xs, LAMBDA v : InBounds(method, xs, v))
    IN  <<SeriesMin(s), SeriesMax(s)>>

\* The loop of fit over self.cols_to_transform: an unknown method raises at the
\* first column, leaving the thresholds collected so far.
RECURSIVE FitThresholds(_, _, _, _)
FitThresholds(method, x, cols, acc) ==
    IF cols = <<>> THEN [col_thresholds |-> acc, raised |-> NoError]
    ELSE IF method \notin KnownMethods THEN [col_thresholds |-> acc, raised |-> "ValueError"]
    ELSE FitThresholds(method, x, Tail(cols),
                       DictSet(acc, Head(cols), ColumnThresholds(method, x.data[Head(cols)])))

\* OutlierRemover.__init__
OutlierRemover_init(cols_to_transform, method) ==
    IF IsNone(cols_to_transform) THEN Ret(NoInstance, NotADataFrame, None, "ValueError")
    ELSE Ret([class |-> "OutlierRemover", cols_to_transform |-> Get(cols_to_transform),
              method |-> method, col_thresholds |-> None],
             NotADataFrame, None, NoError)

\* The mutant of OutlierRemover.fit that filters into a local list and leaves
\* self.cols_to_transform as configured.
OutlierRemover_fit_local(s, x) ==
    IF check_fill(x) # NoError THEN Ret(s, x, None, check_fill(x))
    ELSE LET cols == FilterIn(s.cols_to_transform, Columns(x))
             f == FitThresholds(s.method, x, cols, <<>>)
         IN  Ret([s EXCEPT !.col_thresholds = Some(f.col_thresholds)], x, None, f.raised)

\* OutlierRemover.fit
OutlierRemover_fit(s, x) ==
    IF check_fill(x) # NoError THEN Ret(s, x, None, check_fill(x))
    ELSE LET cols == FilterIn(s.cols_to_transform, Columns(x))
             f == FitThresholds(s.method, x, cols, <<>>)
         IN  Ret([s EXCEPT !.cols_to_transform = cols, !.col_thresholds = Some(f.col_thresholds)],
                 x, None, f.raised)

\* Series.clip(lower, upper): a NaN threshold does not clip, a NaN cell stays NaN.
Clip(cell, lower, upper) ==
    IF IsNone(cell) THEN cell
    ELSE IF ~IsNone(lower) /\ Get(cell) < Get(lower) THEN lower
    ELSE IF ~IsNone(upper) /\ Get(cell) > Get(upper) THEN upper
    ELSE cell

\* The loop of transform over self.cols_to_transform on the copy X_: a column
\* that X_ lacks raises KeyError.
RECURSIVE ClipColumns(_, _, _)
ClipColumns(s, x_, cols) ==
    IF cols = <<>> THEN [X_ |-> x_, raised |-> NoError]
    ELSE IF Head(cols) \notin Columns(x_) THEN [X_ |-> x_, raised |-> "KeyError"]
    ELSE LET t == DictGet(Get(s.col_thresholds), Head(cols))
             cells == x_.data[Head(cols)]
         IN  ClipColumns(s,
                         SetColumn(x_, Head(cols),
                                   [i \in DOMAIN cells |-> Clip(cells[i], t[1], t[2])],
                                   x_.dtype[Head(cols)]),
                         Tail(cols))

\* OutlierRemover.transform
OutlierRemover_transform(s, x) ==
    LET e == check_transform(x, Falsy(s.col_thresholds), TRUE)
        c == ClipColumns(s, x, s.cols_to_transform)
    IN  IF e # NoError THEN Ret(s, x, None, e)
        ELSE IF c.raised # NoError THEN Ret(s, x, None, c.raised)
        ELSE Ret(s, x, Some(c.X_), NoError)

\* Constructor arguments and frames the OutlierRemover calls are tried on.
OutlierRemoverColumns == {None} \cup {Some(c) : c \in {<<>>, <<"a">>, <<"a", "b">>}}

OutlierRemoverMethods == KnownMethods \cup {"wrong_method"}

OutlierRemoverFrames ==
    NumFrames({<<"a">>}, MaxRows) \cup NumFrames({<<>>, <<"b">>, <<"b", "a">>}, 1) \cup {NotADataFrame}

\* OutlierRemover.fit_transform (TransformerMixin): self.fit(X).transform(X).
OutlierRemover_fit_transform(s, x) ==
    LET f == OutlierRemover_fit(s, x)
    IN  IF f.raised # NoError THEN f ELSE OutlierRemover_transform(f.self, f.X)

NewOutlierRemover ==
    \E c \in OutlierRemoverColumns, m \in OutlierRemoverMethods :
        Call("init", NotADataFrame, OutlierRemover_init(c, m))

FitOutlierRemover ==
    /\ self.class = "OutlierRemover"
    /\ \E x \in OutlierRemoverFrames : Call("fit", x, OutlierRemover_fit(self, x))

TransformOutlierRemover ==
    /\ self.class = "OutlierRemover"
    /\ \E x \in OutlierRemoverFrames : Call("transform", x, OutlierRemover_transform(self, x))

FitTransformOutlierRemover ==
    /\ self.class = "OutlierRemover"
    /\ \E x \in OutlierRemoverFrames :
           Call("fit_transform", x, OutlierRemover_fit_transform(self, x))

\* ------------------------------------------------------ CalendarExtractor

\* A date cell is NaT (None) or Some([y, m, d]).
IsLeap(y) == (y % 4 = 0 /\ y % 100 # 0) \/ y % 400 = 0

DaysInMonth(y, m) ==
    IF m = 2 THEN (IF IsLeap(y) THEN 29 ELSE 28)
    ELSE IF m \in {4, 6, 9, 11} THEN 30 ELSE 31

RECURSIVE DaysBeforeMonth(_, _)
DaysBeforeMonth(y, m) == IF m = 1 THEN 0 ELSE DaysBeforeMonth(y, m - 1) + DaysInMonth(y, m - 1)

\* .dt.dayofyear: 1 on 1 January.
DayOfYear(date) == DaysBeforeMonth(date.y, date.m) + date.d

\* Days from 0001-01-01 (a Monday in the proleptic Gregorian calendar).
DaysBeforeYear(y) == (y - 1) * 365 + (y - 1) \div 4 - (y - 1) \div 100 + (y - 1) \div 400

\* .dt.dayofweek: Monday = 0.
DayOfWeek(date) == (DaysBeforeYear(date.y) + DayOfYear(date) - 1) % 7

\* ISO weeks of a year: 53 when 1 January is a Thursday, or a Wednesday of a leap year.
IsoWeeksInYear(y) ==
    LET jan1 == DaysBeforeYear(y) % 7
    IN  IF jan1 = 3 \/ (jan1 = 2 /\ IsLeap(y)) THEN 53 ELSE 52

\* .dt.isocalendar().week
IsoWeek(date) ==
    LET w == (DayOfYear(date) - (DayOfWeek(date) + 1) + 10) \div 7
    IN  IF w < 1 THEN IsoWeeksInYear(date.y - 1)
        ELSE IF w > IsoWeeksInYear(date.y) THEN 1
        ELSE w

\* The accessor named `what` at one cell (NaN at NaT).
DateField(what, cell) ==
    IF IsNone(cell) THEN None
    ELSE CASE what = "year" -> Some(Get(cell).y)
           [] what = "month" -> Some(Get(cell).m)
           [] what = "day" -> Some(Get(cell).d)
           [] what = "dayofweek" -> Some(DayOfWeek(Get(cell)))
           [] what = "dayofyear" -> Some(DayOfYear(Get(cell)))
           [] what = "weekofyear" -> Some(IsoWeek(Get(cell)))

what_to_generate == <<"year", "month", "day", "dayofweek", "dayofyear", "weekofyear">>

\* list[:k] for a Python slice bound k (a negative k counts from the end).
SliceTo(list, k) ==
    IF k >= 0 THEN SubSeq(list, 1, IF k < Len(list) THEN k ELSE Len(list))
    ELSE SubSeq(list, 1, IF Len(list) + k > 0 THEN Len(list) + k ELSE 0)

\* The loop over what_to_generate: the series appended to cols_to_add.  The
\* weekofyear branch computes and names its series and does not append it.
RECURSIVE cols_to_add(_, _)
cols_to_add(whats, dates) ==
    IF whats = <<>> THEN <<>>
    ELSE LET what == Head(whats)
             series == [name |-> what, cells |-> [i \in DOMAIN dates |-> DateField(what, dates[i])]]
         IN  (IF what = "weekofyear" THEN <<>> ELSE <<series>>) \o cols_to_add(Tail(whats), dates)

\* pd.concat([X_, *series], axis=1)
RECURSIVE Concat(_, _)
Concat(x_, series) ==
    IF series = <<>> THEN x_
    ELSE Concat(SetColumn(x_, Head(series).name, Head(series).cells, "int32"), Tail(series))

\* CalendarExtractor.__init__
CalendarExtractor_init(date_col, calendar_level) ==
    Ret([class |-> "CalendarExtractor", date_col |-> date_col, calendar_level |-> calendar_level],
        NotADataFrame, None, NoError)

\* CalendarExtractor.fit
CalendarExtractor_fit(s, x) == Ret(s, x, None, NoError)

\* CalendarExtractor.transform
CalendarExtractor_transform(s, x) ==
    LET e == check_transform(x, TRUE, FALSE)
        whats == IF IsNone(s.calendar_level) THEN what_to_generate
                 ELSE SliceTo(what_to_generate, Get(s.calendar_level))
        dropped == SelectColumns(x, FilterOut(x.columns, {s.date_col}))
    IN  IF e # NoError THEN Ret(s, x, None, e)
        ELSE IF s.date_col \notin Columns(x) THEN Ret(s, x, None, "KeyError")
        ELSE Ret(s, x, Some(Concat(dropped, cols_to_add(whats, x.data[s.date_col]))), NoError)

\* The dates of the tests, a leap day and a 1 January of ISO week 52.
Dates ==
    {[y |-> 2022, m |-> 1, d |-> 1], [y |-> 2023, m |-> 2, d |-> 28],
     [y |-> 2024, m |-> 2, d |-> 29], [y |-> 2024, m |-> 12, d |-> 30]}

DateCells == {None} \cup {Some(date) : date \in Dates}

\* Frames with a "date" column of 0..n rows, alone or beside a numeric column "a".
DateFrames(n) ==
    UNION {{Frame(<<"date">>, k, [c \in {"date"} |-> d], [c \in {"date"} |-> "object"]) :
              d \in [1..k -> DateCells]} : k \in 0..n}
    \cup UNION {{Frame(cols, 1, [c \in {"a", "date"} |-> IF c = "date" THEN <<d>> ELSE <<a>>],
                       [c \in {"a", "date"} |-> IF c = "date" THEN "object" ELSE "float64"]) :
                   d \in DateCells, a \in Cells} : cols \in {<<"a", "date">>, <<"date", "a">>}}

CalendarExtractorLevels == {None} \cup {Some(k) : k \in 0..5}

CalendarExtractorFrames == DateFrames(2) \cup NumFrames({<<>>, <<"a">>}, 1) \cup {NotADataFrame}

\* CalendarExtractor.fit_transform (TransformerMixin): self.fit(X).transform(X).
CalendarExtractor_fit_transform(s, x) ==
    LET f == CalendarExtractor_fit(s, x)
    IN  IF f.raised # NoError THEN f ELSE CalendarExtractor_transform(f.self, f.X)

NewCalendarExtractor ==
    \E k \in CalendarExtractorLevels : Call("init", NotADataFrame, CalendarExtractor_init("date", k))

FitCalendarExtractor ==
    /\ self.class = "CalendarExtractor"
    /\ \E x \in CalendarExtractorFrames : Call("fit", x, CalendarExtractor_fit(self, x))

TransformCalendarExtractor ==
    /\ self.class = "CalendarExtractor"
    /\ \E x \in CalendarExtractorFrames : Call("transform", x, CalendarExtractor_transform(self, x))

FitTransformCalendarExtractor ==
    /\ self.class = "CalendarExtractor"
    /\ \E x \in CalendarExtractorFrames :
           Call("fit_transform", x, CalendarExtractor_fit_transform(self, x))

\* --------------------------------------------------- NoInfoFeatureRemover

\* Series.nunique(): the number of distinct non-null values.
nunique(cells) == Cardinality(Range(Numbers(cells)))

\* NoInfoFeatureRemover.__init__
NoInfoFeatureRemover_init(cols_to_except, verbose) ==
    Ret([class |-> "NoInfoFeatureRemover", cols_to_remove |-> None,
         cols_to_except |-> IF IsNone(cols_to_except) THEN <<>> ELSE Get(cols_to_except),
         verbose |-> verbose],
        NotADataFrame, None, NoError)

\* NoInfoFeatureRemover.fit
NoInfoFeatureRemover_fit(s, x) ==
    IF check_fill(x) # NoError THEN Ret(s, x, None, check_fill(x))
    ELSE Ret([s EXCEPT !.cols_to_remove =
                  Some(SelectSeq(x.columns,
                                 LAMBDA col : nunique(x.data[col]) <= 1
                                              /\ col \notin Range(s.cols_to_except)))],
             x, None, NoError)

\* NoInfoFeatureRemover.transform; X.drop raises KeyError for a label X lacks.
NoInfoFeatureRemover_transform(s, x) ==
    LET e == check_transform(x, Falsy(s.cols_to_remove), TRUE)
    IN  IF e # NoError THEN Ret(s, x, None, e)
        ELSE IF ~(Range(Get(s.cols_to_remove)) \subseteq Columns(x)) THEN Ret(s, x, None, "KeyError")
        ELSE Ret(s, x, Some(SelectColumns(x, FilterOut(x.columns, Range(Get(s.cols_to_remove))))),
                 NoError)

NoInfoFeatureRemoverExcepts == {None, Some(<<>>), Some(<<"a">>), Some(<<"b", "z">>)}

NoInfoFeatureRemoverFrames ==
    NumFrames({<<>>, <<"b">>, <<"a", "b">>}, 2) \cup {NotADataFrame}

\* NoInfoFeatureRemover.fit_transform (TransformerMixin): self.fit(X).transform(X).
NoInfoFeatureRemover_fit_transform(s, x) ==
    LET f == NoInfoFeatureRemover_fit(s, x)
    IN  IF f.raised # NoError THEN f ELSE NoInfoFeatureRemover_transform(f.self, f.X)

NewNoInfoFeatureRemover ==
    \E e \in NoInfoFeatureRemoverExcepts : Call("init", NotADataFrame, NoInfoFeatureRemover_init(e, FALSE))

FitNoInfoFeatureRemover ==
    /\ self.class = "NoInfoFeatureRemover"
    /\ \E x \in NoInfoFeatureRemoverFrames : Call("fit", x, NoInfoFeatureRemover_fit(self, x))

TransformNoInfoFeatureRemover ==
    /\ self.class = "NoInfoFeatureRemover"
    /\ \E x \in NoInfoFeatureRemoverFrames :
           Call("transform", x, NoInfoFeatureRemover_transform(self, x))

FitTransformNoInfoFeatureRemover ==
    /\ self.class = "NoInfoFeatureRemover"
    /\ \E x \in NoInfoFeatureRemoverFrames :
           Call("fit_transform", x,
                NoInfoFeatureRemover_fit_transform(self, x))

\* ----------------------------------------------- WithAnotherColumnImputer

\* WithAnotherColumnImputer.__init__; cols_to_impute is a dict target -> source.
WithAnotherColumnImputer_init(cols_to_impute) ==
    IF IsNone(cols_to_impute) THEN Ret(NoInstance, NotADataFrame, None, "ValueError")
    ELSE Ret([class |-> "WithAnotherColumnImputer", cols_to_impute |-> Get(cols_to_impute)],
             NotADataFrame, None, NoError)

\* WithAnotherColumnImputer.fit
WithAnotherColumnImputer_fit(s, x) ==
    IF check_fill(x) # NoError THEN Ret(s, x, None, check_fill(x))
    ELSE Ret([s EXCEPT !.cols_to_impute = SelectSeq(@, LAMBDA kv : kv[1] \in Columns(x))],
             x, None, NoError)

\* Series.fillna(other): a null cell takes the cell of `other` in the same row.
fillna(cells, other) == [i \in DOMAIN cells |-> IF IsNone(cells[i]) THEN other[i] ELSE cells[i]]

\* The loop of transform over the dict, each step reading and writing the copy X_.
RECURSIVE ImputeColumns(_, _)
ImputeColumns(x_, pairs) ==
    IF pairs = <<>> THEN [X_ |-> x_, raised |-> NoError]
    ELSE LET col == Head(pairs)[1]
             src == Head(pairs)[2]
         IN  IF col \notin Columns(x_) \/ src \notin Columns(x_)
             THEN [X_ |-> x_, raised |-> "KeyError"]
             ELSE ImputeColumns(SetColumn(x_, col, fillna(x_.data[col], x_.data[src]),
                                          x_.dtype[col]),
                                Tail(pairs))

\* The mutant of WithAnotherColumnImputer.transform that fills X itself, not a copy.
WithAnotherColumnImputer_transform_nocopy(s, x) ==
    LET e == check_transform(x, s.cols_to_impute = <<>>, TRUE)
        c == ImputeColumns(x, s.cols_to_impute)
    IN  IF e # NoError THEN Ret(s, x, None, e)
        ELSE IF c.raised # NoError THEN Ret(s, c.X_, None, c.raised)
        ELSE Ret(s, c.X_, Some(c.X_), NoError)

\* WithAnotherColumnImputer.transform; the fitted item checked is cols_to_impute.
WithAnotherColumnImputer_transform(s, x) ==
    LET e == check_transform(x, s.cols_to_impute = <<>>, TRUE)
        c == ImputeColumns(x, s.cols_to_impute)
    IN  IF e # NoError THEN Ret(s, x, None, e)
        ELSE IF c.raised # NoError THEN Ret(s, x, None, c.raised)
        ELSE Ret(s, x, Some(c.X_), NoError)

WithAnotherColumnImputerMappings ==
    {None, Some(<<>>), Some(<<<<"b", "a">>>>), Some(<<<<"b", "a">>, <<"c", "b">>>>),
     Some(<<<<"c", "b">>, <<"b", "a">>>>), Some(<<<<"b", "z">>>>)}

WithAnotherColumnImputerFrames ==
    NumFrames({<<>>, <<"a">>, <<"a", "b">>, <<"a", "b", "c">>}, 1) \cup {NotADataFrame}

\* WithAnotherColumnImputer.fit_transform (TransformerMixin): self.fit(X).transform(X).
WithAnotherColumnImputer_fit_transform(s, x) ==
    LET f == WithAnotherColumnImputer_fit(s, x)
    IN  IF f.raised # NoError THEN f ELSE WithAnotherColumnImputer_transform(f.self, f.X)

NewWithAnotherColumnImputer ==
    \E m \in WithAnotherColumnImputerMappings : Call("init", NotADataFrame, WithAnotherColumnImputer_init(m))

FitWithAnotherColumnImputer ==
    /\ self.class = "WithAnotherColumnImputer"
    /\ \E x \in WithAnotherColumnImputerFrames : Call("fit", x, WithAnotherColumnImputer_fit(self, x))

TransformWithAnotherColumnImputer ==
    /\ self.class = "WithAnotherColumnImputer"
    /\ \E x \in WithAnotherColumnImputerFrames :
           Call("transform", x, WithAnotherColumnImputer_transform(self, x))

FitTransformWithAnotherColumnImputer ==
    /\ self.class = "WithAnotherColumnImputer"
    /\ \E x \in WithAnotherColumnImputerFrames :
           Call("fit_transform", x,
                WithAnotherColumnImputer_fit_transform(self, x))

\* -------------------------------------------------------------- CatCaster

\* CatCaster.__init__
CatCaster_init(cols_to_cast) ==
    Ret([class |-> "CatCaster", cols_to_cast |-> cols_to_cast], NotADataFrame, None, NoError)

\* CatCaster.fit
CatCaster_fit(s, x) ==
    IF check_fill(x) # NoError THEN Ret(s, x, None, check_fill(x))
    ELSE Ret([s EXCEPT !.cols_to_cast = FilterIn(@, Columns(x))], x, None, NoError)

\* CatCaster.transform; X[cols] raises KeyError for a label X lacks.
CatCaster_transform(s, x) ==
    LET e == check_transform(x, TRUE, FALSE)
    IN  IF e # NoError THEN Ret(s, x, None, e)
        ELSE IF ~(Range(s.cols_to_cast) \subseteq Columns(x)) THEN Ret(s, x, None, "KeyError")
        ELSE Ret(s, x,
                 Some([x EXCEPT !.dtype = [c \in Columns(x) |->
                                             IF c \in Range(s.cols_to_cast) THEN "category" ELSE @[c]]]),
                 NoError)

CatCasterColumns == {<<>>, <<"a">>, <<"b", "a">>, <<"a", "z">>}

CatCasterFrames == NumFrames({<<>>, <<"b">>, <<"a", "b">>}, 1) \cup {NotADataFrame}

\* CatCaster.fit_transform (TransformerMixin): self.fit(X).transform(X).
CatCaster_fit_transform(s, x) ==
    LET f == CatCaster_fit(s, x)
    IN  IF f.raised # NoError THEN f ELSE CatCaster_transform(f.self, f.X)

NewCatCaster == \E c \in CatCasterColumns : Call("init", NotADataFrame, CatCaster_init(c))

FitCatCaster ==
    /\ self.class = "CatCaster"
    /\ \E x \in CatCasterFrames : Call("fit", x, CatCaster_fit(self, x))

TransformCatCaster ==
    /\ self.class = "CatCaster"
    /\ \E x \in CatCasterFrames : Call("transform", x, CatCaster_transform(self, x))

FitTransformCatCaster ==
    /\ self.class = "CatCaster"
    /\ \E x \in CatCasterFrames :
           Call("fit_transform", x, CatCaster_fit_transform(self, x))

\* ---------------------------------------------------------- FeaturesOrder

\* FeaturesOrder.__init__
FeaturesOrder_init(features_order) ==
    Ret([class |-> "FeaturesOrder", features_order |-> features_order, features_order_ |-> None],
        NotADataFrame, None, NoError)

\* FeaturesOrder.fit
FeaturesOrder_fit(s, x) ==
    IF check_fill(x) # NoError THEN Ret(s, x, None, check_fill(x))
    ELSE LET first == FilterIn(s.features_order, Columns(x))
         IN  Ret([s EXCEPT !.features_order_ = Some(first \o FilterOut(x.columns, Range(first)))],
                 x, None, NoError)

\* FeaturesOrder.transform; X[list] raises KeyError for a label X lacks.
FeaturesOrder_transform(s, x) ==
    LET e == check_transform(x, Falsy(s.features_order_), TRUE)
    IN  IF e # NoError THEN Ret(s, x, None, e)
        ELSE IF ~(Range(Get(s.features_order_)) \subseteq Columns(x)) THEN Ret(s, x, None, "KeyError")
        ELSE Ret(s, x, Some(SelectColumns(x, Get(s.features_order_))), NoError)

Labels == {"a", "b", "c"}

\* Requested orders: up to two labels, of the frames' or not, repeated or not.
FeaturesOrderOrders == SeqsUpTo({"a", "b", "z"}, 2) \cup {<<"c", "b", "a">>}

\* Frames of every column order over Labels, with no row or one row of zeros.
FeaturesOrderFrames ==
    {Frame(cols, k, [c \in Range(cols) |-> [i \in 1..k |-> Some(0)]],
           [c \in Range(cols) |-> "float64"]) : cols \in Orders(Labels, 3), k \in 0..1}
    \cup {NotADataFrame}

\* FeaturesOrder.fit_transform (TransformerMixin): self.fit(X).transform(X).
FeaturesOrder_fit_transform(s, x) ==
    LET f == FeaturesOrder_fit(s, x)
    IN  IF f.raised # NoError THEN f ELSE FeaturesOrder_transform(f.self, f.X)

NewFeaturesOrder == \E o \in FeaturesOrderOrders : Call("init", NotADataFrame, FeaturesOrder_init(o))

FitFeaturesOrder ==
    /\ self.class = "FeaturesOrder"
    /\ \E x \in FeaturesOrderFrames : Call("fit", x, FeaturesOrder_fit(self, x))

TransformFeaturesOrder ==
    /\ self.class = "FeaturesOrder"
    /\ \E x \in FeaturesOrderFrames : Call("transform", x, FeaturesOrder_transform(self, x))

FitTransformFeaturesOrder ==
    /\ self.class = "FeaturesOrder"
    /\ \E x \in FeaturesOrderFrames :
           Call("fit_transform", x, FeaturesOrder_fit_transform(self, x))

\* ----------------------------------------------------------- ScalerPicker

KnownScalerTypes == {"standard", "minmax", "robust", "power"}

\* scaler().fit(X[cols]): scikit-learn refuses a frame with no column or no row.
\* The fitted scaler is kept as its type, its columns and, standing for the
\* statistics it learned, the numbers of each column it was fitted on.
ScalerFit(scaler_type, x, cols) ==
    IF cols = <<>> \/ x.nrows = 0 THEN [scaler |-> None, raised |-> "ValueError"]
    ELSE [scaler |-> Some([type |-> scaler_type, feature_names_in_ |-> cols,
                           fitted_on |-> [c \in Range(cols) |-> Numbers(x.data[c])]]),
          raised |-> NoError]

\* One scaled cell: NaN stays NaN, a number becomes a value the scaler derives
\* from it and from what it learned of the column.
Scaled(scaler, col, cell) ==
    IF IsNone(cell) THEN cell ELSE <<scaler.type, Get(cell), scaler.fitted_on[col]>>

\* ScalerPicker.__init__
ScalerPicker_init(cols_to_scale, scaler_type) ==
    Ret([class |-> "ScalerPicker", cols_to_scale |-> cols_to_scale,
         scaler_type |-> scaler_type, scaler |-> None],
        NotADataFrame, None, NoError)

\* ScalerPicker.fit with _get_scaler_class: cols_to_scale is filtered first, then
\* an unknown type raises, then the scaler is fitted and stored.
ScalerPicker_fit(s, x) ==
    IF check_fill(x) # NoError THEN Ret(s, x, None, check_fill(x))
    ELSE LET cols == FilterIn(s.cols_to_scale, Columns(x))
             t == [s EXCEPT !.cols_to_scale = cols]
             f == ScalerFit(s.scaler_type, x, cols)
         IN  IF s.scaler_type = "skip" THEN Ret([t EXCEPT !.scaler = Some([type |-> "skip"])], x, None, NoError)
             ELSE IF s.scaler_type \notin KnownScalerTypes THEN Ret(t, x, None, "ValueError")
             ELSE IF f.raised # NoError THEN Ret(t, x, None, f.raised)
             ELSE Ret([t EXCEPT !.scaler = f.scaler], x, None, NoError)

\* ScalerPicker.transform; the scaler raises unless it is given the columns it
\* was fitted on (cols_to_scale may have been narrowed by a fit that then raised).
ScalerPicker_transform(s, x) ==
    LET e == check_transform(x, IsNone(s.scaler), TRUE)
        scaler == Get(s.scaler)
    IN  IF e # NoError THEN Ret(s, x, None, e)
        ELSE IF scaler.type = "skip" THEN Ret(s, x, Some(x), NoError)
        ELSE IF ~(Range(s.cols_to_scale) \subseteq Columns(x)) THEN Ret(s, x, None, "KeyError")
        ELSE IF s.cols_to_scale # scaler.feature_names_in_ THEN Ret(s, x, None, "ValueError")
        ELSE IF x.nrows = 0 THEN Ret(s, x, None, "ValueError")
        ELSE Ret(s, x,
                 Some([x EXCEPT !.data = [c \in Columns(x) |->
                                            IF c \in Range(s.cols_to_scale)
                                            THEN [i \in DOMAIN @[c] |-> Scaled(scaler, c, @[c][i])]
                                            ELSE @[c]]]),
                 NoError)

ScalerPickerColumns == {<<>>, <<"a">>, <<"a", "b">>}

ScalerPickerTypes == KnownScalerTypes \cup {"skip", "wrong_type"}

ScalerPickerFrames == NumFrames({<<>>, <<"b">>, <<"a", "b">>}, 1) \cup {NotADataFrame}

\* ScalerPicker.fit_transform (TransformerMixin): self.fit(X).transform(X).
ScalerPicker_fit_transform(s, x) ==
    LET f == ScalerPicker_fit(s, x)
    IN  IF f.raised # NoError THEN f ELSE ScalerPicker_transform(f.self, f.X)

NewScalerPicker ==
    \E c \in ScalerPickerColumns, t \in ScalerPickerTypes : Call("init", NotADataFrame, ScalerPicker_init(c, t))

FitScalerPicker ==
    /\ self.class = "ScalerPicker"
    /\ \E x \in ScalerPickerFrames : Call("fit", x, ScalerPicker_fit(self, x))

TransformScalerPicker ==
    /\ self.class = "ScalerPicker"
    /\ \E x \in ScalerPickerFrames : Call("transform", x, ScalerPicker_transform(self, x))

FitTransformScalerPicker ==
    /\ self.class = "ScalerPicker"
    /\ \E x \in ScalerPickerFrames :
           Call("fit_transform", x, ScalerPicker_fit_transform(self, x))

\* ---------------------------------------------------- SimpleImputerPicker

\* cols_to_impute as the caller gives it: None, a list of labels, or a dict
\* from a tuple of labels to a fill value; fit replaces None by X.columns.
NoCols == [kind |-> "None"]

ListOf(labels) == [kind |-> "list", list |-> labels]

DictOf(d) == [kind |-> "dict", dict |-> d]

IndexOf(labels) == [kind |-> "Index", list |-> labels]

\* Iterating cols_to_impute: the labels of a list or an Index; a dict yields its
\* keys, which are tuples and so never labels of a frame.
Labelled(cols_to_impute) ==
    IF cols_to_impute.kind \in {"list", "Index"} THEN cols_to_impute.list ELSE <<>>

\* check_key_tuple_empty_intersection: fatal when two keys share a column.
check_key_tuple_empty_intersection(d) ==
    IF \E i, j \in DOMAIN d : i # j /\ Range(d[i][1]) \cap Range(d[j][1]) # {}
    THEN "ValueError" ELSE NoError

\* SimpleImputerPicker.__init__
SimpleImputerPicker_init(strategy, cols_to_impute) ==
    IF cols_to_impute.kind = "dict"
       /\ check_key_tuple_empty_intersection(cols_to_impute.dict) # NoError
    THEN Ret(NoInstance, NotADataFrame, None, "ValueError")
    ELSE Ret([class |-> "SimpleImputerPicker", strategy |-> strategy,
              cols_to_impute |-> cols_to_impute, imputer |-> None],
             NotADataFrame, None, NoError)

RECURSIVE GCD(_, _)
GCD(a, b) == IF b = 0 THEN a ELSE GCD(b, a % b)

\* The cell holding num / den: a number when it is whole, else the reduced ratio.
Ratio(num, den) ==
    IF num % den = 0 THEN Some(num \div den)
    ELSE <<"ratio", num \div GCD(num, den), den \div GCD(num, den)>>

\* The smallest of the values that occur most often (scipy's mode).
Mode(xs) ==
    LET count(v) == Cardinality({i \in DOMAIN xs : xs[i] = v})
    IN  CHOOSE v \in Range(xs) :
            \A w \in Range(xs) : count(w) < count(v) \/ (count(w) = count(v) /\ v <= w)

\* SimpleImputer(strategy).fit: statistics_ of a column holding the numbers xs.
Statistic(strategy, xs) ==
    LET n == Len(xs)
        s == Sort(xs)
    IN  CASE strategy = "mean" -> Ratio(Sum(xs), n)
          [] strategy = "median" ->
                 IF n % 2 = 1 THEN Some(s[(n + 1) \div 2])
                 ELSE Ratio(s[n \div 2] + s[n \div 2 + 1], 2)
          [] strategy = "most_frequent" -> Some(Mode(xs))

\* SimpleImputer.transform on one column: a null cell takes the fill value.
Impute(cells, fill) == [i \in DOMAIN cells |-> IF IsNone(cells[i]) THEN fill ELSE cells[i]]

\* strategy "constant": one imputer per dict key, the key filtered to the labels
\* of X; a key with no label left gets none.
RECURSIVE ConstantImputers(_, _, _)
ConstantImputers(x, items, acc) ==
    IF items = <<>> THEN acc
    ELSE LET cols == FilterIn(Head(items)[1], Columns(x))
         IN  ConstantImputers(x, Tail(items),
                              IF cols = <<>> THEN acc ELSE DictSet(acc, cols, Some(Head(items)[2])))

\* The mutant of MaxImputers that fills with the column's minimum.
MaxImputers_min(x, cols) ==
    [i \in DOMAIN cols |-> <<cols[i], SeriesMin(Numbers(x.data[cols[i]]))>>]

\* strategy "max": one imputer per label, its fill value X[col].max().
MaxImputers(x, cols) ==
    [i \in DOMAIN cols |-> <<cols[i], SeriesMax(Numbers(x.data[cols[i]]))>>]

\* SimpleImputerPicker.fit.  The imputer is a dict of constant imputers (kept
\* as their fill values) or one SimpleImputer (its columns and statistics_).
\* scikit-learn refuses to fit on a frame with no column.
SimpleImputerPicker_fit(s, x) ==
    IF check_fill(x) # NoError THEN Ret(s, x, None, check_fill(x))
    ELSE IF \E c \in Columns(x) : Numbers(x.data[c]) = <<>> THEN Ret(s, x, None, "ValueError")
    ELSE LET t == [s EXCEPT !.cols_to_impute = IF @.kind = "None" THEN IndexOf(x.columns) ELSE @]
             cols == FilterIn(Labelled(t.cols_to_impute), Columns(x))
         IN  CASE s.strategy = "constant" ->
                      IF t.cols_to_impute.kind # "dict"
                      THEN Ret([t EXCEPT !.imputer = Some([kind |-> "constant", groups |-> <<>>])],
                               x, None, "AttributeError")
                      ELSE Ret([t EXCEPT !.imputer =
                                    Some([kind |-> "constant",
                                          groups |-> ConstantImputers(x, t.cols_to_impute.dict, <<>>)])],
                               x, None, NoError)
               [] s.strategy \in {"mean", "median", "most_frequent"} ->
                      IF cols = <<>> THEN Ret(t, x, None, "ValueError")
                      ELSE Ret([t EXCEPT !.imputer =
                                    Some([kind |-> "SimpleImputer",
                                          feature_names_in_ |-> cols,
                                          statistics_ |-> [c \in Range(cols) |->
                                              Statistic(s.strategy, Numbers(x.data[c]))]])],
                               x, None, NoError)
               [] s.strategy = "max" ->
                      Ret([t EXCEPT !.imputer = Some([kind |-> "max", cols |-> MaxImputers(x, cols)])],
                          x, None, NoError)
               [] OTHER -> Ret(t, x, None, "ValueError")

\* `not self.imputer`: None and the empty dict are falsy, a SimpleImputer is not.
NoImputer(imputer) ==
    \/ IsNone(imputer)
    \/ Get(imputer).kind = "constant" /\ Get(imputer).groups = <<>>
    \/ Get(imputer).kind = "max" /\ Get(imputer).cols = <<>>

\* The loop of transform over a dict of imputers, each given as <<labels, fill>>:
\* X_[cols] = imputer.transform(X_[cols]).  A missing label is a KeyError and
\* scikit-learn refuses a frame with no row.
RECURSIVE ImputeGroups(_, _)
ImputeGroups(x_, groups) ==
    IF groups = <<>> THEN [X_ |-> x_, raised |-> NoError]
    ELSE LET cols == Head(groups)[1]
             fill == Head(groups)[2]
         IN  IF ~(Range(cols) \subseteq Columns(x_)) THEN [X_ |-> x_, raised |-> "KeyError"]
             ELSE IF x_.nrows = 0 THEN [X_ |-> x_, raised |-> "ValueError"]
             ELSE ImputeGroups([x_ EXCEPT !.data = [c \in Columns(x_) |->
                                                      IF c \in Range(cols) THEN Impute(@[c], fill)
                                                      ELSE @[c]]],
                               Tail(groups))

\* SimpleImputerPicker.transform.  With one SimpleImputer the whole copy goes
\* through it: scikit-learn raises unless its columns are those of the fit, in
\* the same order, and returns those columns imputed.
SimpleImputerPicker_transform(s, x) ==
    LET e == check_transform(x, NoImputer(s.imputer), TRUE)
        imputer == Get(s.imputer)
        g == ImputeGroups(x, IF imputer.kind = "constant" THEN imputer.groups
                             ELSE [i \in DOMAIN imputer.cols |->
                                       <<<<imputer.cols[i][1]>>, imputer.cols[i][2]>>])
    IN  IF e # NoError THEN Ret(s, x, None, e)
        ELSE IF s.strategy \in {"constant", "max"}
        THEN IF g.raised # NoError THEN Ret(s, x, None, g.raised)
             ELSE Ret(s, x, Some(g.X_), NoError)
        ELSE IF x.columns # imputer.feature_names_in_ \/ x.nrows = 0
        THEN Ret(s, x, None, "ValueError")
        ELSE Ret(s, x,
                 Some([x EXCEPT !.data = [c \in Columns(x) |->
                                            Impute(@[c], imputer.statistics_[c])]]),
                 NoError)

\* SimpleImputerPicker.fit_transform (TransformerMixin): self.fit(X).transform(X).
SimpleImputerPicker_fit_transform(s, x) ==
    LET f == SimpleImputerPicker_fit(s, x)
    IN  IF f.raised # NoError THEN f ELSE SimpleImputerPicker_transform(f.self, f.X)

SimpleImputerPickerStrategies ==
    {"constant", "mean", "median", "most_frequent", "max", "wrong_strategy"}

SimpleImputerPickerColumns ==
    {NoCols, ListOf(<<"a">>), ListOf(<<"b", "a">>),
     DictOf(<<<<<<"a">>, 0>>>>), DictOf(<<<<<<"a", "z">>, 0>>, <<<<"b">>, MaxVal>>>>),
     DictOf(<<<<<<"a">>, 0>>, <<<<"b", "a">>, MaxVal>>>>)}

SimpleImputerPickerFrames ==
    NumFrames({<<"a">>}, 2) \cup NumFrames({<<>>, <<"a", "b">>}, 1) \cup {NotADataFrame}

NewSimpleImputerPicker ==
    \E t \in SimpleImputerPickerStrategies, c \in SimpleImputerPickerColumns :
        Call("init", NotADataFrame, SimpleImputerPicker_init(t, c))

FitSimpleImputerPicker ==
    /\ self.class = "SimpleImputerPicker"
    /\ \E x \in SimpleImputerPickerFrames : Call("fit", x, SimpleImputerPicker_fit(self, x))

TransformSimpleImputerPicker ==
    /\ self.class = "SimpleImputerPicker"
    /\ \E x \in SimpleImputerPickerFrames :
           Call("transform", x, SimpleImputerPicker_transform(self, x))

FitTransformSimpleImputerPicker ==
    /\ self.class = "SimpleImputerPicker"
    /\ \E x \in SimpleImputerPickerFrames :
           Call("fit_transform", x, SimpleImputerPicker_fit_transform(self, x))

\* ------------------------------------------------------------ the machine

Init ==
    /\ self = NoInstance
    /\ op = "none"
    /\ arg = NotADataFrame
    /\ X = NotADataFrame
    /\ out = None
    /\ raised = NoError
    /\ fit_called = FALSE
    /\ constructed = NoInstance

Next ==
    \/ NewCalendarExtractor
    \/ FitCalendarExtractor
    \/ TransformCalendarExtractor
    \/ FitTransformCalendarExtractor
    \/ NewNoInfoFeatureRemover
    \/ FitNoInfoFeatureRemover
    \/ TransformNoInfoFeatureRemover
    \/ FitTransformNoInfoFeatureRemover
    \/ NewWithAnotherColumnImputer
    \/ FitWithAnotherColumnImputer
    \/ TransformWithAnotherColumnImputer
    \/ FitTransformWithAnotherColumnImputer
    \/ NewCatCaster
    \/ FitCatCaster
    \/ TransformCatCaster
    \/ FitTransformCatCaster
    \/ NewFeaturesOrder
    \/ FitFeaturesOrder
    \/ TransformFeaturesOrder
    \/ FitTransformFeaturesOrder
    \/ NewScalerPicker
    \/ FitScalerPicker
    \/ TransformScalerPicker
    \/ FitTransformScalerPicker
    \/ NewOutlierRemover
    \/ FitOutlierRemover
    \/ TransformOutlierRemover
    \/ FitTransformOutlierRemover
    \/ NewSimpleImputerPicker
    \/ FitSimpleImputerPicker
    \/ TransformSimpleImputerPicker
    \/ FitTransformSimpleImputerPicker

Spec == Init /\ [][Next]_vars

\* The OutlierRemover alone.
NextOutlierRemover ==
    \/ NewOutlierRemover
    \/ FitOutlierRemover
    \/ TransformOutlierRemover
    \/ FitTransformOutlierRemover

SpecOutlierRemover == Init /\ [][NextOutlierRemover]_vars

\* The SimpleImputerPicker alone.
NextSimpleImputerPicker ==
    \/ NewSimpleImputerPicker
    \/ FitSimpleImputerPicker
    \/ TransformSimpleImputerPicker
    \/ FitTransformSimpleImputerPicker

SpecSimpleImputerPicker == Init /\ [][NextSimpleImputerPicker]_vars

\* ----------------------------------------------------------------- claims

Returned == raised = NoError

\* C1: for every component and every table, transform on an instance on which
\* fit has never been called raises the Not-Fitted error.
C1_TransformBeforeFitRaisesNotFitted ==
    (op = "transform" /\ ~fit_called /\ X.isDataFrame) => raised = "NotFittedError"

\* C2: for OutlierRemover, WithAnotherColumnImputer, CatCaster and ScalerPicker
\* (with a known method / scaler type), for every table and every non-empty
\* configured column list, some or all of whose columns the table may lack,
\* fit(T) followed by transform(T) completes without raising.
C2_MissingColumnsTolerated ==
    (/\ op = "fit_transform"
     /\ X.isDataFrame
     /\ \/ /\ self.class = "OutlierRemover"
           /\ self.method \in KnownMethods
           /\ constructed.cols_to_transform # <<>>
        \/ /\ self.class = "WithAnotherColumnImputer"
           /\ constructed.cols_to_impute # <<>>
        \/ /\ self.class = "CatCaster"
           /\ constructed.cols_to_cast # <<>>
        \/ /\ self.class = "ScalerPicker"
           /\ self.scaler_type \in KnownScalerTypes \cup {"skip"}
           /\ constructed.cols_to_scale # <<>>)
    => Returned

\* C3: CalendarExtractor.transform with calendar_level = k in 0..5 returns the
\* original columns except the date column, in order, followed by the first k
\* of the six calendar fields; with calendar_level unset, by all six.  The row
\* count is unchanged.
C3_CalendarColumns ==
    (self.class = "CalendarExtractor" /\ op \in {"transform", "fit_transform"} /\ Returned)
    => /\ Get(out).columns =
              FilterOut(X.columns, {self.date_col})
              \o SubSeq(what_to_generate, 1,
                        IF IsNone(self.calendar_level) THEN 6 ELSE Get(self.calendar_level))
       /\ Get(out).nrows = X.nrows

\* The columns of a frame that hold at most one distinct value.
NoInfoColumns(df) == {c \in Columns(df) : Cardinality({cell \in Range(df.data[c]) : ~IsNone(cell)}) <= 1}

\* C4: NoInfoFeatureRemover(cols_to_except=E).fit(T) followed by transform(T)
\* returns T without exactly the columns that have at most one distinct value
\* and are not in E, the others kept in order (T unchanged when there is none).
C4_NoInfoColumnsRemoved ==
    (self.class = "NoInfoFeatureRemover" /\ op = "fit_transform" /\ X.isDataFrame)
    => /\ Returned
       /\ Get(out) = SelectColumns(X, FilterOut(X.columns,
                                                NoInfoColumns(X) \ Range(self.cols_to_except)))

\* The numbers of column c of a frame that lie within the method's bounds.
WithinBounds(method, df, c) ==
    {v \in Range(Numbers(df.data[c])) : InBounds(method, Numbers(df.data[c]), v)}

\* What the claim says of a cell clipped to the stored pair (lo, hi).
ClippedTo(cell, result, lo, hi) ==
    IF IsNone(cell) THEN IsNone(result)
    ELSE IF ~IsNone(lo) /\ Get(cell) < Get(lo) THEN result = lo
    ELSE IF ~IsNone(hi) /\ Get(cell) > Get(hi) THEN result = hi
    ELSE result = cell

\* fit has just returned on the frame X (alone, or as the first half of a
\* fit_transform that returned); transform has just returned `out` for X.
AfterOutlierRemoverFit ==
    self.class = "OutlierRemover" /\ op \in {"fit", "fit_transform"} /\ Returned

AfterOutlierRemoverTransform ==
    self.class = "OutlierRemover" /\ op \in {"transform", "fit_transform"} /\ Returned

\* Every configured column of the transformed frame is clipped to its stored pair.
OutlierRemoverClips ==
    AfterOutlierRemoverTransform
    => \A c \in Range(self.cols_to_transform) : \A i \in 1..X.nrows :
           LET t == DictGet(Get(self.col_thresholds), c)
           IN  ClippedTo(X.data[c][i], Get(out).data[c][i], t[1], t[2])

\* C5 as stated: after fit(T) the pair stored for each configured column present
\* in T (and holding a number) is (lo, hi), the smallest and largest values
\* occurring in that column that lie within the method's bounds (always observed
\* values); transform maps v to lo if v < lo, to hi if v > hi, and leaves it
\* unchanged otherwise.
C5_ThresholdsAreObservedValues ==
    /\ AfterOutlierRemoverFit
       => /\ DictKeys(Get(self.col_thresholds)) = self.cols_to_transform
          /\ \A c \in Range(self.cols_to_transform) :
                 LET t == DictGet(Get(self.col_thresholds), c)
                     W == WithinBounds(self.method, X, c)
                 IN  Numbers(X.data[c]) # <<>>
                     =>
                     /\ ~IsNone(t[1]) /\ ~IsNone(t[2])
                     /\ Get(t[1]) \in W /\ Get(t[2]) \in W
                     /\ \A w \in W : Get(t[1]) <= w /\ w <= Get(t[2])
    /\ OutlierRemoverClips

\* C5 amended: the pair is the smallest and largest in-bounds values when the
\* column has a value within the bounds, and (NaN, NaN) when it has none; values
\* are clipped to the pair, and a NaN pair (or a NaN value) changes nothing.
C5_ThresholdsAreInBoundsExtremes ==
    /\ AfterOutlierRemoverFit
       => /\ DictKeys(Get(self.col_thresholds)) = self.cols_to_transform
          /\ \A c \in Range(self.cols_to_transform) :
                 LET t == DictGet(Get(self.col_thresholds), c)
                     W == WithinBounds(self.method, X, c)
                 IN  IF W = {} THEN t = <<None, None>>
                     ELSE /\ ~IsNone(t[1]) /\ ~IsNone(t[2])
                          /\ Get(t[1]) \in W /\ Get(t[2]) \in W
                          /\ \A w \in W : Get(t[1]) <= w /\ w <= Get(t[2])
    /\ OutlierRemoverClips
    /\ AfterOutlierRemoverTransform
       => \A c \in Range(self.cols_to_transform) :
              DictGet(Get(self.col_thresholds), c) = <<None, None>>
              => Get(out).data[c] = X.data[c]

\* C5's case: a fit by percentiles has left a value of the frame out of the
\* stored pair, and the transform of the same frame has pulled it to the pair.
C5_Witness ==
    /\ self.class = "OutlierRemover" /\ op = "fit_transform" /\ Returned
    /\ self.method = "quantile"
    /\ \E c \in Range(self.cols_to_transform) : \E i \in 1..X.nrows :
           /\ ~IsNone(X.data[c][i])
           /\ Get(out).data[c][i] # X.data[c][i]

\* C6: with method = "skip", for every fit table and every table transformed
\* after it, every value of every configured column comes out as it went in.
C6_SkipNeverChangesValues ==
    (AfterOutlierRemoverTransform /\ self.method = "skip")
    => \A c \in Range(self.cols_to_transform) : Get(out).data[c] = X.data[c]

\* C7: for every table, fit raises a validation error whenever the method of an
\* OutlierRemover (constructed with some column) or the scaler type of a
\* ScalerPicker is not a known one, whichever configured columns the table has.
C7_UnknownSelectorRaises ==
    (/\ op = "fit"
     /\ X.isDataFrame
     /\ \/ /\ self.class = "OutlierRemover"
           /\ self.method \notin KnownMethods
           /\ constructed.cols_to_transform # <<>>
        \/ /\ self.class = "ScalerPicker"
           /\ self.scaler_type \notin KnownScalerTypes \cup {"skip"})
    => raised = "ValueError"

\* C8: no OutlierRemover is constructed with an empty column list and no
\* WithAnotherColumnImputer with an empty mapping: the constructor raises.
C8_EmptyConfigurationRejected ==
    op = "init"
    => /\ self.class = "OutlierRemover" => self.cols_to_transform # <<>>
       /\ self.class = "WithAnotherColumnImputer" => self.cols_to_impute # <<>>

\* C9: after a fit, WithAnotherColumnImputer.transform leaves a non-null target value as it
\* is and gives a null one the source column's value of the input table in the
\* same row (null when that is null too), for every mapping, chained or not.
C9_ImputedFromInputTable ==
    (/\ self.class = "WithAnotherColumnImputer"
     /\ fit_called
     /\ op \in {"transform", "fit_transform"}
     /\ Returned)
    => \A k \in DOMAIN self.cols_to_impute : \A i \in 1..X.nrows :
           LET target == self.cols_to_impute[k][1]
               source == self.cols_to_impute[k][2]
           IN  Get(out).data[target][i] =
                   IF IsNone(X.data[target][i]) THEN X.data[source][i] ELSE X.data[target][i]

\* C10: after FeaturesOrder.fit(T) the stored order is the requested columns
\* that T has, in requested order, then T's other columns in their order: a
\* permutation of T's columns; transform(T) returns the columns in that order.
C10_StoredOrder ==
    /\ (self.class = "FeaturesOrder" /\ op \in {"fit", "fit_transform"} /\ X.isDataFrame)
       => /\ ~IsNone(self.features_order_)
          /\ Get(self.features_order_) =
                 FilterIn(self.features_order, Columns(X))
                 \o FilterOut(X.columns, Range(self.features_order))
          /\ NoDup(Get(self.features_order_))
          /\ Range(Get(self.features_order_)) = Columns(X)
    /\ (self.class = "FeaturesOrder" /\ op = "fit_transform" /\ X.isDataFrame)
       => /\ Returned
          /\ Get(out).columns = Get(self.features_order_)

\* The labels a SimpleImputerPicker was configured with.
ConfiguredLabels(cols_to_impute) ==
    CASE cols_to_impute.kind = "list" -> Range(cols_to_impute.list)
      [] cols_to_impute.kind = "dict" ->
             UNION {Range(cols_to_impute.dict[i][1]) : i \in DOMAIN cols_to_impute.dict}
      [] OTHER -> {}

\* C11: for every strategy and every configured column list that is a strict
\* subset of the table's columns (a dict for "constant", a list otherwise; the
\* table has no entirely null column, so fit returns), fit(T) then transform(T)
\* succeeds, returns the columns of T and leaves the columns outside the list
\* unchanged.
C11_UnconfiguredColumnsPassThrough ==
    LET L == ConfiguredLabels(constructed.cols_to_impute)
    IN  (/\ self.class = "SimpleImputerPicker" /\ op = "fit_transform"
         /\ self.strategy \in {"constant", "mean", "median", "most_frequent", "max"}
         /\ constructed.cols_to_impute.kind = (IF self.strategy = "constant" THEN "dict" ELSE "list")
         /\ X.isDataFrame
         /\ \A c \in Columns(X) : Numbers(X.data[c]) # <<>>
         /\ L # {} /\ L \subseteq Columns(X) /\ L # Columns(X))
        => /\ Returned
           /\ Get(out).columns = X.columns
           /\ \A c \in Columns(X) \ L : Get(out).data[c] = X.data[c]

\* The target columns of a SimpleImputerPicker in the table df: every column
\* when cols_to_impute is unset, else the listed labels that df has.
TargetColumns(cols_to_impute, df) ==
    IF cols_to_impute.kind = "None" THEN Columns(df)
    ELSE Range(Labelled(cols_to_impute)) \cap Columns(df)

EntirelyNull(df, c) == Numbers(df.data[c]) = <<>>

MaxPicker == self.class = "SimpleImputerPicker" /\ self.strategy = "max"

\* With strategy "max": a fit on a table with an entirely null target column
\* raises ValueError.
MaxFitRejectsNullTarget ==
    (/\ MaxPicker /\ op \in {"fit", "fit_transform"} /\ X.isDataFrame
     /\ \E c \in TargetColumns(self.cols_to_impute, X) : EntirelyNull(X, c))
    => raised = "ValueError"

\* With strategy "max": a fit that returned has stored, for each target column
\* of the table, the largest non-null value of that column.
MaxFitLearnsMaximum ==
    (MaxPicker /\ op = "fit" /\ Returned)
    => LET learned == Get(self.imputer).cols
       IN  /\ Range(DictKeys(learned)) = TargetColumns(self.cols_to_impute, X)
           /\ \A c \in Range(DictKeys(learned)) :
                  LET fill == DictGet(learned, c)
                  IN  /\ ~IsNone(fill)
                      /\ Get(fill) \in Range(Numbers(X.data[c]))
                      /\ \A v \in Range(Numbers(X.data[c])) : v <= Get(fill)

\* With strategy "max": a transform that returned has put the stored maximum in
\* place of every null of a learned column and changed no other cell.
MaxTransformFillsNulls ==
    (MaxPicker /\ op \in {"transform", "fit_transform"} /\ Returned)
    => LET learned == Get(self.imputer).cols
       IN  /\ Get(out).columns = X.columns /\ Get(out).nrows = X.nrows
           /\ \A c \in Columns(X) : \A i \in 1..X.nrows :
                  Get(out).data[c][i] =
                      IF DictHas(learned, c) /\ IsNone(X.data[c][i])
                      THEN DictGet(learned, c) ELSE X.data[c][i]

\* C12 as stated: with strategy "max", fit(T) raises a Validation error if a
\* target column of T is entirely null and otherwise returns, having learned
\* each target column's largest non-null value; every table transformed
\* afterwards gets that value in place of each null of a target column and
\* keeps its non-null values.
C12_MaxFitRaisesOnlyForNullTarget ==
    /\ MaxFitRejectsNullTarget
    /\ (/\ MaxPicker /\ op = "fit" /\ X.isDataFrame
        /\ \A c \in TargetColumns(self.cols_to_impute, X) : ~EntirelyNull(X, c))
       => Returned
    /\ MaxFitLearnsMaximum
    /\ MaxTransformFillsNulls

\* C12 amended: with strategy "max", fit(T) raises a Validation error if any
\* column of T, target or not, is entirely null and otherwise returns, having
\* learned each target column's largest non-null value; every table whose
\* transform returns afterwards gets that value in place of each null of a
\* learned column and keeps every other value.
C12_MaxFitRaisesForAnyNullColumn ==
    /\ MaxFitRejectsNullTarget
    /\ (MaxPicker /\ op \in {"fit", "fit_transform"} /\ X.isDataFrame
        /\ \E c \in Columns(X) : EntirelyNull(X, c))
       => raised = "ValueError"
    /\ (MaxPicker /\ op = "fit" /\ X.isDataFrame /\ \A c \in Columns(X) : ~EntirelyNull(X, c))
       => Returned
    /\ MaxFitLearnsMaximum
    /\ MaxTransformFillsNulls

\* C12's case: a table other than the fitted one has been transformed, and a
\* null of a learned column has become the fitted table's maximum, which is not
\* the maximum of the transformed table.
C12_Witness ==
    /\ MaxPicker /\ op = "transform" /\ Returned
    /\ \E c \in Columns(X) : \E i \in 1..X.nrows :
           /\ DictHas(Get(self.imputer).cols, c)
           /\ IsNone(X.data[c][i])
           /\ Get(out).data[c][i] = DictGet(Get(self.imputer).cols, c)
           /\ Numbers(X.data[c]) # <<>>
           /\ Get(out).data[c][i] # SeriesMax(Numbers(X.data[c]))

\* C13: transform is pure for every component: a transform call, whether it
\* returns a table or raises, leaves the instance (its configuration and learned
\* state) exactly as it was before the call and leaves the table it was given
\* unchanged.
C13_TransformIsPure ==
    [][op' = "transform" => (self' = self /\ X' = arg')]_vars

\* C13's case: a transform on a fitted instance has returned a table that
\* differs from the table it was given.
C13_Witness ==
    /\ op = "transform" /\ Returned /\ fit_called
    /\ self # constructed
    /\ Get(out) # arg
    /\ X = arg

\* The components whose fit filters their configured column list.
ColumnFilters == {"OutlierRemover", "WithAnotherColumnImputer", "CatCaster", "ScalerPicker"}

\* The configured column list of such a component (the targets of a mapping).
ConfiguredColumns(s) ==
    CASE s.class = "OutlierRemover" -> s.cols_to_transform
      [] s.class = "WithAnotherColumnImputer" -> DictKeys(s.cols_to_impute)
      [] s.class = "CatCaster" -> s.cols_to_cast
      [] s.class = "ScalerPicker" -> s.cols_to_scale

\* The columns its learned state is keyed by.
LearnedColumns(s) ==
    CASE s.class = "OutlierRemover" -> Range(DictKeys(Get(s.col_thresholds)))
      [] s.class = "ScalerPicker" ->
             IF Get(s.scaler).type = "skip" THEN {} ELSE Range(Get(s.scaler).feature_names_in_)
      [] OTHER -> Range(ConfiguredColumns(s))

\* C14: for OutlierRemover, WithAnotherColumnImputer, CatCaster and ScalerPicker
\* a fit on a table overwrites the configured column list with its intersection
\* with the table's columns, so over any sequence of fits the list never grows;
\* after each fit that returns, the list and the learned state keyed by it hold
\* only columns of the table just fitted.
C14_FitNarrowsConfiguredColumns ==
    /\ [][(self'.class \in ColumnFilters /\ op' \in {"fit", "fit_transform"})
          => /\ Range(ConfiguredColumns(self')) \subseteq Range(ConfiguredColumns(self))
             /\ X'.isDataFrame
                => ConfiguredColumns(self') = FilterIn(ConfiguredColumns(self), Columns(X'))]_vars
    /\ []((self.class \in ColumnFilters /\ op \in {"fit", "fit_transform"} /\ Returned)
          => /\ Range(ConfiguredColumns(self)) \subseteq Columns(X)
             /\ LearnedColumns(self) \subseteq Columns(X))

\* C14's case: a fit has returned on a table holding a column the constructor
\* was given, and neither the list nor the learned state has it, an earlier fit
\* on a table without the column having dropped it.
C14_Witness ==
    /\ self.class \in {"OutlierRemover", "ScalerPicker"} /\ op = "fit" /\ Returned
    /\ \E c \in Range(ConfiguredColumns(constructed)) \cap Columns(X) :
           /\ c \notin Range(ConfiguredColumns(self))
           /\ c \notin LearnedColumns(self)
    /\ LearnedColumns(self) # {}

====
